---------------------------- MODULE Spec2Model ----------------------------
(***************************************************************************)
(* A model of pyhm: the Metropolis-Hastings step method (propose, decide,  *)
(* pre_tune), the sampling loop sample() and the ancestry resolver         *)
(* trace_ancestries().                                                     *)
(*                                                                         *)
(* Numbers.  Variable values and log-probabilities are integers.  A step   *)
(* size is a positive real of the multiplicative group generated by        *)
(* 2, 3, 5, 11, 101 and sqrt(npars); it is kept exactly as the vector of   *)
(* the six exponents, so multiplying two numbers adds their vectors.       *)
(* Probabilities (the uniform draw z and exp(beta)) are in millionths.     *)
(***************************************************************************)
EXTENDS Integers, Sequences, FiniteSets, TLC

VARIABLES
    pc,              \* position of the running call
    err,             \* the error the call raised, "none" while it has raised none
    step_method,     \* sampler.step_method: "None", "MetropolisHastings", "NoPreTune"
    nsteps,          \* argument nsteps
    ntune_iterlim,   \* argument ntune_iterlim (NoneV when not given)
    tune_interval,   \* argument tune_interval (NoneV when not given)
    keys,            \* unobs_stochs.keys(): the free variables in dictionary order
    value,           \* unobs_stochs[key].value
    step_sizes,      \* step_method.step_sizes: a mapping over a subset of the keys
    current_values,  \* sample(): current_values
    current_logp,    \* sample(): current_logp
    new_logp,        \* sample(): new_logp
    i,               \* sample(): loop index of the main loop
    chain,           \* sampler.chain: keys "logp", "accepted" and one per free variable
    pt,              \* pre_tune(): its local variables, a record
    z,               \* decide(): the uniform draw z, in millionths
    decision,        \* decide(): the decision returned
    parents,         \* stoch.parents of every stochastic: keyword -> parent object
    kw_order,        \* the order in which a parents dictionary lists its keywords
    ancestries,      \* trace_ancestries(): ancestries
    model_ancestries,\* model._ancestries
    func,            \* the function given to the stochastic decorator, and its arguments
    node,            \* the variable node the decorator constructed
    hist             \* history: what the call has done so far (not program state)

\* the variables of a direct call of decide()
decideVars == << z, decision >>

\* the variables of the model graph and its ancestry depths
ancVars == << parents, kw_order, ancestries, model_ancestries >>

\* the variables of a use of the stochastic decorator
stochVars == << func, node >>

vars == << pc, err, step_method, nsteps, ntune_iterlim, tune_interval, keys, value,
           step_sizes, current_values, current_logp, new_logp, i, chain, pt,
           decideVars, ancVars, stochVars, hist >>

-----------------------------------------------------------------------------
(* Bounds of the model *)

\* free-variable values range over 0..MaxVal
MaxVal == 1

\* nsteps ranges over 0..MaxSteps
MaxSteps == 2

\* the tuning interval length n tried when tuning is requested
TuneN == 3

\* a direct call of decide() is given log-probabilities in -MaxLogp..MaxLogp
MaxLogp == 6

\* the end of a tuning interval is tried for the lengths 1..MaxInterval and 100
MaxInterval == 20

\* the number of stochastics of the model graphs tried
NStochs == 3

-----------------------------------------------------------------------------
(* Program constants *)

\* Python's None for an integer argument
NoneV == -1

\* the names the free variables of a model are taken from
AllKeys == {"a", "b"}

\* the free variables of the model: those unobs_stochs.keys() lists
Keys == { keys[x] : x \in DOMAIN keys }

\* what a proposal draw may add to a value (a Gaussian draw, rounded)
Deltas == {-1, 0, 1}

\* np.random.random(): draws from [0, 1), in millionths
ZDraws == {0, 367879, 367880, 999999}

Million == 1000000

\* the keywords a stochastic names its parents by, in a fixed order
KwSeq == << "p", "q" >>

KW == { KwSeq[x] : x \in DOMAIN KwSeq }

\* a parent that is no stochastic: a plain constant
Const == "const"

-----------------------------------------------------------------------------
(* Arithmetic helpers *)

RECURSIVE SumOver(_, _)
SumOver(f, S) ==
    IF S = {} THEN 0
    ELSE LET x == CHOOSE y \in S : TRUE IN f[x] + SumOver(f, S \ {x})

\* all orders in which a dictionary over S may be iterated
Perms(S) == { p \in [1..Cardinality(S) -> S] : \A x \in S : \E n \in DOMAIN p : p[n] = x }

\* the models tried: one free variable, or two listed in either order
KeyOrders == { << "a" >> } \cup Perms(AllKeys)

\* np.exp( beta ) for beta <= 0, in millionths, rounded down
ExpMicro(beta) ==
    CASE beta >= 0  -> Million
      [] beta = -1  -> 367879
      [] beta = -2  -> 135335
      [] beta = -3  -> 49787
      [] beta = -4  -> 18315
      [] beta = -5  -> 6737
      [] beta = -6  -> 2478
      [] beta = -7  -> 911
      [] beta = -8  -> 335
      [] beta = -9  -> 123
      [] beta = -10 -> 45
      [] beta = -11 -> 16
      [] beta = -12 -> 6
      [] beta = -13 -> 2
      [] OTHER      -> 0

\* Model.logp(): the joint log-probability of the current values
\* (independent standard normals, scaled to integers: -0.5*x^2 becomes -x^2)
Logp(vals) == 0 - SumOver([k \in DOMAIN vals |-> vals[k] * vals[k]], DOMAIN vals)

-----------------------------------------------------------------------------
(* MetropolisHastings.decide *)

DecideFlipped(cur, new, draw) ==
    LET beta == new - cur
    IN  IF beta > 0 THEN TRUE ELSE draw >= ExpMicro(beta)

\* decide( current_logp, new_logp ) when np.random.random() returns draw
Decide(cur, new, draw) ==
    LET beta == new - cur
    IN  IF beta > 0 THEN TRUE ELSE draw <= ExpMicro(beta)

\* int( True ), int( False )
Flag(b) == IF b THEN 1 ELSE 0

\* the flags decide() can return for a pair, over the draws of z
Decisions(cur, new) == { Flag(Decide(cur, new, draw)) : draw \in ZDraws }

-----------------------------------------------------------------------------
(* MetropolisHastings.propose *)

\* the joint perturbations propose() can make of vals: one draw per free variable
Proposals(vals) ==
    { v \in [Keys -> 0..MaxVal] : \A k \in Keys : (v[k] - vals[k]) \in Deltas }

\* propose() raises KeyError when a free variable has no step size
ProposeFails == \E k \in Keys : k \notin DOMAIN step_sizes

-----------------------------------------------------------------------------
(* Step sizes: exact products of the factors the code multiplies by *)

Primes == << 2, 3, 5, 11, 101 >>

RECURSIVE Val(_, _)
\* the exponent of the prime p in n
Val(p, n) == IF n % p = 0 THEN 1 + Val(p, n \div p) ELSE 0

\* the number num/den
Rat(num, den) ==
    [ t \in 1..6 |-> IF t = 6 THEN 0 ELSE Val(Primes[t], num) - Val(Primes[t], den) ]

One == Rat(1, 1)

\* x * y
Mul(x, y) == [ t \in 1..6 |-> x[t] + y[t] ]

\* 1.0/np.sqrt( npars )
InvSqrt(npars) ==
    CASE npars = 1 -> One
      [] npars = 4 -> Rat(1, 2)
      [] OTHER     -> [ t \in 1..6 |-> IF t = 6 THEN -1 ELSE 0 ]

\* np.zeros( n, dtype=int )
Zeros(n) == [ x \in 1..n |-> 0 ]

RECURSIVE SumSeq(_)
\* np.sum of an array
SumSeq(s) == IF s = << >> THEN 0 ELSE Head(s) + SumSeq(Tail(s))

-----------------------------------------------------------------------------
(* sample(): the checks before the main loop *)

HasPreTuneAlways(sm) == TRUE

\* hasattr( step_method, 'pre_tune' )
HasPreTune(sm) == sm = "MetropolisHastings"

\* ( ntune_iterlim!=None )*( tune_interval!=None )
WillTune(m, n) == (m # NoneV) /\ (n # NoneV)

\* the chain sample() allocates: zeros of length nsteps
NewChain(n) ==
    [ logp |-> Zeros(n), accepted |-> Zeros(n), vals |-> [ k \in Keys |-> Zeros(n) ] ]

\* no chain: sample() has not allocated one
NoChain == NewChain(0)

\* the local variables of pre_tune() after its lines 61-102, entered with the free
\* variables at vals and tune_interval n; accfrac_j and accfrac hold the number
\* of accepted steps of the interval, the numerator of the fraction over n
PreTuneEnter(vals, n) ==
    [ phase |-> "A", j |-> 1, i |-> 0, nsuccess |-> 0, accfrac_j |-> 0, accfrac |-> 0,
      orig_stoch_values |-> vals, current_values |-> vals, current_logp |-> 0,
      tuning_chains |-> [ k \in Keys |-> Zeros(n) ], tuning_chain |-> Zeros(n),
      rescale_factor |-> One ]

\* pre_tune() is not running
NoTune == [ PreTuneEnter(<< >>, 0) EXCEPT !.phase = "none", !.j = 0 ]

\* the history of a call that has done nothing yet: the values and step sizes
\* at the call, the numbers of propose and decide calls made, the calls of the
\* main loop in order, the log-probabilities proposed, the number of most
\* recent completed intervals of the tuning loop that is running (Phase A of
\* the parameter being tuned, or Phase B) whose acceptance fraction was in the
\* loop's success band without one outside it in between, the current_logp
\* pre_tune() handed to its last call of decide(), the step sizes the
\* perturbations of the last iteration of Phase B were drawn with, and the
\* step sizes the perturbations of Phase B were drawn with since its last
\* completed interval with an acceptance fraction outside the band, and for
\* each tuning loop left by its break the number of decide() calls it made
NoHist(call, vals, sizes) ==
    [ value0 |-> vals, step0 |-> sizes, npropose |-> 0, ndecide |-> 0,
      events |-> << >>, proposed |-> << >>, inband |-> 0, compared |-> 0,
      sigma |-> << >>,
      used |-> {}, loops |-> << >>, call |-> call ]

-----------------------------------------------------------------------------
(* sample(): one decision of the main loop *)

\* the free variables' values after lines 75-81
ValuesAfterNoRestore(accepted, vals, cur) == vals

ValuesAfter(accepted, vals, cur) == IF accepted = 1 THEN vals ELSE cur

\* current_values after lines 75-81
CurrentAfter(accepted, vals, cur) == IF accepted = 1 THEN vals ELSE cur

\* current_logp after lines 75-81
LogpAfterProposed(accepted, cur_logp, prop_logp) == prop_logp

LogpAfter(accepted, cur_logp, prop_logp) == IF accepted = 1 THEN prop_logp ELSE cur_logp

-----------------------------------------------------------------------------
(* pre_tune(): the acceptance-fraction tests.  The fraction is k/n and a     *)
(* threshold is t hundredths, so k/n <= t/100 iff 100*k <= t*n.              *)

FracLe(k, n, t) == 100 * k <= t * n
FracLt(k, n, t) == 100 * k < t * n
FracGt(k, n, t) == 100 * k > t * n
FracGe(k, n, t) == 100 * k >= t * n

\* nconsecutive
nconsecutive == 5

\* Phase A, lines 158-181: what the step size of the tuned parameter is
\* multiplied by at the end of an interval with k of n steps accepted
PhaseAFactor(k, n) ==
    IF FracLe(k, n, 1) THEN Rat(1, 5)
    ELSE IF FracGt(k, n, 1) /\ FracLe(k, n, 5) THEN Rat(1, 2)
    ELSE IF FracGt(k, n, 5) /\ FracLe(k, n, 10) THEN Rat(2, 3)
    ELSE IF FracGt(k, n, 10) /\ FracLe(k, n, 15) THEN Rat(5, 6)
    ELSE IF FracGt(k, n, 15) /\ FracLt(k, n, 20) THEN Rat(10, 11)
    ELSE IF FracGt(k, n, 20) /\ FracLt(k, n, 25) THEN Rat(100, 101)
    ELSE IF FracGt(k, n, 35) /\ FracLe(k, n, 40) THEN Rat(101, 100)
    ELSE IF FracGt(k, n, 40) /\ FracLe(k, n, 45) THEN Rat(11, 10)
    ELSE IF FracGt(k, n, 45) /\ FracLe(k, n, 50) THEN Rat(6, 5)
    ELSE IF FracGt(k, n, 50) /\ FracLe(k, n, 55) THEN Rat(3, 2)
    ELSE IF FracGt(k, n, 55) /\ FracLe(k, n, 60) THEN Rat(2, 1)
    ELSE IF FracGt(k, n, 60) THEN Rat(5, 1)
    ELSE One

\* Phase A, line 186: the interval counts as a success
PhaseASuccess(k, n) == FracGe(k, n, 20) /\ FracLe(k, n, 40)

\* Phase B, line 263: the interval counts as a success
PhaseBSuccess(k, n) == FracGe(k, n, 20) /\ FracLe(k, n, 35)

PhaseBFactorKeeps(k, n, old) == old

\* Phase B, lines 263-287: rescale_factor after an interval with k of n steps
\* accepted, old being its value before

PhaseBFactor(k, n, old) ==
    IF PhaseBSuccess(k, n) THEN One
    ELSE IF FracLe(k, n, 1) THEN Rat(1, 2)
    ELSE IF FracGt(k, n, 1) /\ FracLe(k, n, 5) THEN Rat(2, 3)
    ELSE IF FracGt(k, n, 5) /\ FracLe(k, n, 10) THEN Rat(5, 6)
    ELSE IF FracGt(k, n, 10) /\ FracLe(k, n, 15) THEN Rat(10, 11)
    ELSE IF FracGt(k, n, 15) /\ FracLt(k, n, 20) THEN Rat(100, 101)
    ELSE IF FracGt(k, n, 35) /\ FracLe(k, n, 45) THEN Rat(101, 100)
    ELSE IF FracGt(k, n, 45) /\ FracLe(k, n, 50) THEN Rat(11, 10)
    ELSE IF FracGt(k, n, 50) /\ FracLe(k, n, 55) THEN Rat(6, 5)
    ELSE IF FracGt(k, n, 55) /\ FracLe(k, n, 60) THEN Rat(3, 2)
    ELSE IF FracGt(k, n, 60) THEN Rat(2, 1)
    ELSE old

ConvergedEarly(nsuccess) == nsuccess >= nconsecutive - 1

\* lines 109 and 215: the loop is left because tuning has converged
Converged(nsuccess) == nsuccess >= nconsecutive

\* Phase A, lines 155-181: the step sizes after an interval of n steps of
\* parameter key_j of which naccepted were accepted
IntervalEndA(sizes, key_j, naccepted, n) ==
    [ sizes EXCEPT ![key_j] = Mul(@, PhaseAFactor(naccepted, n)) ]

ResetAtNever(k, orig, vals) == vals

\* lines 128-130 and 232-234: the free variables' values after the reset to the
\* original values that opens an interval (k = 0)
ResetAt(k, orig, vals) == IF k = 0 THEN orig ELSE vals

RescaledFirstOnly(sizes, factor) == [ sizes EXCEPT ![keys[1]] = Mul(@, factor) ]

\* Phase B, lines 237-243: the step sizes after the rescaling that opens an
\* interval
Rescaled(sizes, factor) ==
    [ key \in DOMAIN sizes |->
        IF key \in Keys THEN Mul(sizes[key], factor) ELSE sizes[key] ]

LimitReachedLate(iter, m) == iter = m + 1

\* lines 114 and 219: the iteration limit has been reached
LimitReached(iter, m) == iter = m

-----------------------------------------------------------------------------
(* The calls *)

npars == Len(keys)

\* the values of ntune_iterlim tried: none, the default of pre_tune, too few
\* for five intervals, exactly five intervals, one more than five intervals
IterLims == { NoneV, 0, TuneN + 1, nconsecutive * TuneN, nconsecutive * TuneN + 1 }

\* the step-size mappings a step method is constructed with: none given
\* (step_sizes=None leaves the empty mapping) or 1.0 for every free variable
NoStepSizes == [ k \in {} |-> One ]

StepSizeConfigs == { NoStepSizes, [ k \in Keys |-> One ] }

\* the model and the step method a call is made on
Configured ==
    /\ err = "none"
    /\ keys \in KeyOrders
    /\ value \in [ Keys -> 0..MaxVal ]
    /\ step_method \in { "None", "MetropolisHastings", "NoPreTune" }
    /\ step_sizes \in StepSizeConfigs
    /\ (step_method = "None") => (step_sizes = NoStepSizes)

\* sample() has not run: it has no locals and the sampler no chain
NoSample ==
    /\ current_values = value
    /\ current_logp = 0
    /\ new_logp = 0
    /\ i = 0
    /\ chain = NoChain
    /\ pt = NoTune

\* a model of one free variable at 0 with a MetropolisHastings step method
OneVariable ==
    /\ err = "none"
    /\ keys = << "a" >>
    /\ value = [ key \in Keys |-> 0 ]
    /\ step_method = "MetropolisHastings"
    /\ step_sizes = [ key \in Keys |-> One ]

\* sample() is not called: it has no arguments
NoArgs == nsteps = 0 /\ ntune_iterlim = NoneV /\ tune_interval = NoneV

\* no direct call of decide() is made
NoDecide == z = 0 /\ decision = FALSE

\* no function: the decorator is not used
NoFunc == [ logp |-> FALSE, random |-> FALSE, observed |-> FALSE, args |-> << >>,
            ndefaults |-> 0 ]

\* no node has been constructed
NoNode == [ made |-> FALSE, logp |-> FALSE, random |-> FALSE, observed |-> FALSE,
            value_given |-> FALSE, parents |-> << >> ]

\* the stochastic decorator is not used
NoStoch == func = NoFunc /\ node = NoNode

\* the model graph plays no part: the free variables have constant parents only
NoGraph ==
    /\ parents = [ key \in Keys |-> [ kw \in KW |-> Const ] ]
    /\ kw_order = KwSeq
    /\ ancestries = << >>
    /\ model_ancestries = << >>

\* sample( sampler, nsteps, ntune_iterlim, tune_interval ) is called
Init ==
    /\ pc = "sample"
    /\ Configured
    /\ NoSample
    /\ nsteps \in 0..MaxSteps
    /\ ntune_iterlim \in IterLims
    /\ tune_interval \in { NoneV, TuneN }
    \* tuning to convergence is tried with one free variable and nsteps = MaxSteps
    /\ (Len(keys) > 1 /\ ntune_iterlim # NoneV) => ntune_iterlim <= TuneN + 1
    /\ WillTune(ntune_iterlim, tune_interval) => nsteps = MaxSteps
    /\ NoDecide
    /\ NoStoch
    /\ NoGraph
    /\ hist = NoHist("sample", value, step_sizes)

\* raise
Raise(e) == pc' = "error" /\ err' = e

\* where sample() goes when it reaches its main loop (line 68)
MainLoop == IF nsteps = 0 THEN "done" ELSE "propose"

LoopNextShort(idx, n) == IF idx + 2 >= n THEN "done" ELSE "propose"

\* for i in range( nsteps ): where the loop goes after iteration idx
LoopNext(idx, n) == IF idx + 1 = n THEN "done" ELSE "propose"

\* sample(), lines 23-62: the checks, the chain, the snapshot, the tuning test
SampleBegin ==
    /\ pc = "sample"
    /\ IF step_method = "None"
       THEN /\ Raise("NoStepMethod")
            /\ UNCHANGED << chain, current_values, current_logp, pt >>
       ELSE /\ chain' = NewChain(nsteps)
            /\ current_values' = value
            /\ current_logp' = Logp(value)
            /\ IF WillTune(ntune_iterlim, tune_interval)
               THEN IF ~HasPreTune(step_method)
                    THEN Raise("NoPreTune") /\ UNCHANGED pt
                    ELSE IF tune_interval = NoneV
                    THEN Raise("TuneIntervalUnset") /\ UNCHANGED pt
                    ELSE /\ pc' = "tuneA"
                         /\ pt' = PreTuneEnter(value, tune_interval)
                         /\ UNCHANGED err
               ELSE /\ pc' = MainLoop
                    /\ UNCHANGED << err, pt >>
    /\ UNCHANGED << step_method, nsteps, ntune_iterlim, tune_interval, keys, value,
                    step_sizes, new_logp, i, hist, decideVars, ancVars, stochVars >>

\* what no step of pre_tune() changes
TuneFrame ==
    UNCHANGED << step_method, nsteps, ntune_iterlim, tune_interval, keys,
                 current_values, current_logp, new_logp, i, chain, decideVars, ancVars, stochVars >>

\* pre_tune(), line 105: the tuned parameter has no step size
PhaseAKeyError ==
    /\ pc = "tuneA"
    /\ keys[pt.j] \notin DOMAIN step_sizes
    /\ Raise("KeyError")
    /\ UNCHANGED << value, step_sizes, pt, hist >>
    /\ TuneFrame

\* pre_tune(), lines 109-111 and 94-98 or 204-208: parameter j has converged;
\* go on to the next parameter, or to Phase B after the last one
PhaseABreak ==
    /\ pc = "tuneA"
    /\ keys[pt.j] \in DOMAIN step_sizes
    /\ Converged(pt.nsuccess)
    /\ step_sizes' = [ step_sizes EXCEPT ![keys[pt.j]] = Mul(@, Rat(3, 10)) ]
    /\ IF pt.j < npars
       THEN /\ pt' = [ pt EXCEPT !.j = @ + 1, !.i = 0, !.nsuccess = 0, !.accfrac_j = 0 ]
            /\ UNCHANGED pc
       ELSE /\ pt' = [ pt EXCEPT !.phase = "B", !.i = 0, !.nsuccess = 0,
                                 !.rescale_factor = InvSqrt(npars),
                                 !.tuning_chain = Zeros(tune_interval),
                                 !.current_logp = Logp(value) ]
            /\ pc' = "tuneB"
    /\ hist' = [ hist EXCEPT !.inband = 0,
                             !.loops = Append(@, hist.ndecide - SumSeq(@)) ]
    /\ UNCHANGED << err, value >>
    /\ TuneFrame

\* pre_tune(), lines 114-117: Phase A has used up its iterations
PhaseARaise ==
    /\ pc = "tuneA"
    /\ keys[pt.j] \in DOMAIN step_sizes
    /\ ~Converged(pt.nsuccess)
    /\ LimitReached(pt.i, ntune_iterlim)
    /\ Raise("TuneAbort")
    /\ UNCHANGED << value, step_sizes, pt, hist >>
    /\ TuneFrame

\* pre_tune(), lines 120-189: one iteration of Phase A for parameter j
PhaseAIter ==
    /\ pc = "tuneA"
    /\ keys[pt.j] \in DOMAIN step_sizes
    /\ ~Converged(pt.nsuccess)
    /\ ~LimitReached(pt.i, ntune_iterlim)
    /\ \E d \in Deltas, accepted \in {0, 1} :
         LET n == tune_interval
             key_j == keys[pt.j]
             k == pt.i % n
             cur_logp == Logp(value)
             base == ResetAt(k, pt.orig_stoch_values, value)
             stepped == [ base EXCEPT ![key_j] = @ + d ]
             prop_logp == Logp(stepped)
             flags == [ pt.tuning_chains[key_j] EXCEPT ![k + 1] = accepted ]
             naccepted == SumSeq(flags)
             last == (k = n - 1)
         IN  /\ stepped[key_j] \in 0..MaxVal
             /\ accepted \in Decisions(cur_logp, prop_logp)
             /\ value' = IF accepted = 1 THEN stepped
                         ELSE [ stepped EXCEPT ![key_j] = pt.current_values[key_j] ]
             /\ step_sizes' = IF last THEN IntervalEndA(step_sizes, key_j, naccepted, n)
                              ELSE step_sizes
             /\ pt' = [ pt EXCEPT
                   !.i = @ + 1,
                   !.current_logp = IF accepted = 1 THEN prop_logp ELSE cur_logp,
                   !.current_values = IF accepted = 1
                                      THEN [ @ EXCEPT ![key_j] = stepped[key_j] ] ELSE @,
                   !.tuning_chains = [ @ EXCEPT ![key_j] = flags ],
                   !.accfrac_j = IF last THEN naccepted ELSE @,
                   !.nsuccess = IF last
                                THEN (IF PhaseASuccess(naccepted, n) THEN @ + 1 ELSE 0)
                                ELSE @ ]
             /\ hist' = [ hist EXCEPT
                   !.ndecide = @ + 1,
                   !.compared = cur_logp,
                   !.inband = IF last
                              THEN (IF 20 * n <= 100 * naccepted /\ 100 * naccepted <= 40 * n
                                    THEN @ + 1 ELSE 0)
                              ELSE @ ]
    /\ UNCHANGED << pc, err >>
    /\ TuneFrame

\* pre_tune(), lines 215-216 and 294-296: Phase B has converged, pre_tune()
\* returns; inside sample() the main loop follows
PhaseBBreak ==
    /\ pc = "tuneB"
    /\ Converged(pt.nsuccess)
    /\ pc' = IF hist.call = "sample" THEN MainLoop ELSE "done"
    /\ pt' = NoTune
    /\ hist' = [ hist EXCEPT !.loops = Append(@, hist.ndecide - SumSeq(@)) ]
    /\ UNCHANGED << err, value, step_sizes >>
    /\ TuneFrame

\* pre_tune(), lines 219-222: Phase B has used up its iterations
PhaseBRaise ==
    /\ pc = "tuneB"
    /\ ~Converged(pt.nsuccess)
    /\ LimitReached(pt.i, ntune_iterlim)
    /\ Raise("TuneAbort")
    /\ UNCHANGED << value, step_sizes, pt, hist >>
    /\ TuneFrame

\* pre_tune(), lines 225-287: one iteration of Phase B
PhaseBIter ==
    /\ pc = "tuneB"
    /\ ~Converged(pt.nsuccess)
    /\ ~LimitReached(pt.i, ntune_iterlim)
    /\ \E accepted \in {0, 1} :
         LET n == tune_interval
             k == pt.i % n
             base == ResetAt(k, pt.orig_stoch_values, value)
             last == (k = n - 1)
         IN  \E stepped \in Proposals(base) :
               LET prop_logp == Logp(stepped)
                   flags == [ pt.tuning_chain EXCEPT ![k + 1] = accepted ]
                   naccepted == SumSeq(flags)
               IN  /\ accepted \in Decisions(pt.current_logp, prop_logp)
                   /\ value' = IF accepted = 1 THEN stepped ELSE pt.current_values
                   /\ step_sizes' = IF k = 0 THEN Rescaled(step_sizes, pt.rescale_factor)
                                    ELSE step_sizes
                   /\ pt' = [ pt EXCEPT
                         !.i = @ + 1,
                         !.current_logp = IF accepted = 1 THEN prop_logp ELSE @,
                         !.current_values = IF accepted = 1 THEN stepped ELSE @,
                         !.tuning_chain = flags,
                         !.accfrac = IF last THEN naccepted ELSE @,
                         !.nsuccess = IF last
                                      THEN (IF PhaseBSuccess(naccepted, n) THEN @ + 1 ELSE 0)
                                      ELSE @,
                         !.rescale_factor = IF last THEN PhaseBFactor(naccepted, n, @) ELSE @ ]
                   /\ hist' = [ hist EXCEPT
                         !.ndecide = @ + 1,
                         !.compared = pt.current_logp,
                         !.sigma = step_sizes',
                         !.used = IF last /\ ~(20 * n <= 100 * naccepted /\ 100 * naccepted <= 35 * n)
                                  THEN {}
                                  ELSE @ \cup { step_sizes' },
                         !.inband = IF last
                                    THEN (IF 20 * n <= 100 * naccepted /\ 100 * naccepted <= 35 * n
                                          THEN @ + 1 ELSE 0)
                                    ELSE @ ]
    /\ UNCHANGED << pc, err >>
    /\ TuneFrame

LoopFrameRescales ==
    /\ step_sizes' = [ key \in DOMAIN step_sizes |-> Mul(step_sizes[key], Rat(1, 2)) ]
    /\ UNCHANGED << step_method, nsteps, ntune_iterlim, tune_interval, keys, pt,
                    decideVars, ancVars, stochVars >>

\* what no step of the main loop changes
LoopFrame ==
    UNCHANGED << step_method, nsteps, ntune_iterlim, tune_interval, keys, step_sizes, pt,
                 decideVars, ancVars, stochVars >>

\* sample(), lines 72-73: propose and evaluate the proposal
Propose ==
    /\ pc = "propose"
    /\ IF ProposeFails
       THEN /\ Raise("KeyError")
            /\ UNCHANGED << value, new_logp, hist >>
       ELSE \E stepped \in Proposals(value) :
              /\ value' = stepped
              /\ new_logp' = Logp(stepped)
              /\ pc' = "decide"
              /\ hist' = [ hist EXCEPT !.npropose = @ + 1,
                                       !.events = Append(@, << "propose", i >>),
                                       !.proposed = Append(@, Logp(stepped)) ]
              /\ UNCHANGED err
    /\ UNCHANGED << current_values, current_logp, i, chain >>
    /\ LoopFrame

\* sample(), line 74: decide
DecideStep ==
    /\ pc = "decide"
    /\ \E accepted \in Decisions(current_logp, new_logp) :
         chain' = [ chain EXCEPT !.accepted[i + 1] = accepted ]
    /\ pc' = "record"
    /\ hist' = [ hist EXCEPT !.ndecide = @ + 1, !.events = Append(@, << "decide", i >>) ]
    /\ UNCHANGED << err, value, current_values, current_logp, new_logp, i >>
    /\ LoopFrame

\* sample(), lines 75-84: adopt or restore, then write the chain at index i
Record ==
    /\ pc = "record"
    /\ LET accepted == chain.accepted[i + 1]
           vals == ValuesAfter(accepted, value, current_values)
           logp == LogpAfter(accepted, current_logp, new_logp)
       IN  /\ value' = vals
           /\ current_values' = CurrentAfter(accepted, value, current_values)
           /\ current_logp' = logp
           /\ chain' = [ chain EXCEPT !.logp[i + 1] = logp,
                                      !.vals = [ key \in Keys |-> [ @[key] EXCEPT ![i + 1] = vals[key] ] ] ]
    /\ i' = i + 1
    /\ pc' = LoopNext(i, nsteps)
    /\ hist' = [ hist EXCEPT !.events = Append(@, << "write", i >>) ]
    /\ UNCHANGED << err, new_logp >>
    /\ LoopFrame

Next ==
    \/ SampleBegin
    \/ PhaseAKeyError
    \/ PhaseABreak
    \/ PhaseARaise
    \/ PhaseAIter
    \/ PhaseBBreak
    \/ PhaseBRaise
    \/ PhaseBIter
    \/ Propose
    \/ DecideStep
    \/ Record

Spec == Init /\ [][Next]_vars

-----------------------------------------------------------------------------
(* decide() called directly *)

\* decide( current_logp, new_logp ) is called
InitDecide ==
    /\ pc = "decide_call"
    /\ OneVariable
    /\ NoArgs
    /\ current_values = value
    /\ current_logp \in (-MaxLogp)..MaxLogp
    /\ new_logp \in (-MaxLogp)..MaxLogp
    /\ i = 0
    /\ chain = NoChain
    /\ pt = NoTune
    /\ NoDecide
    /\ NoStoch
    /\ NoGraph
    /\ hist = NoHist("decide", value, step_sizes)

\* decide(), lines 44-54
DecideCall ==
    /\ pc = "decide_call"
    /\ \E draw \in ZDraws :
         /\ z' = draw
         /\ decision' = Decide(current_logp, new_logp, draw)
    /\ pc' = "done"
    /\ hist' = [ hist EXCEPT !.ndecide = @ + 1 ]
    /\ UNCHANGED << err, step_method, nsteps, ntune_iterlim, tune_interval, keys, value,
                    step_sizes, current_values, current_logp, new_logp, i, chain, pt,
                    ancVars, stochVars >>

NextDecide == DecideCall

SpecDecide == InitDecide /\ [][NextDecide]_vars

-----------------------------------------------------------------------------
(* pre_tune() at the end of a Phase A interval *)

\* the interval lengths tried
Intervals == (1..MaxInterval) \cup { 100 }

\* an array of n accepted flags of which the first k are set
Flags(k, n) == [ x \in 1..n |-> IF x <= k THEN 1 ELSE 0 ]

\* pre_tune() has made the last step of the first interval of its one parameter
InitTable ==
    /\ pc = "interval_end"
    /\ OneVariable
    /\ nsteps = 0
    /\ tune_interval \in Intervals
    /\ ntune_iterlim = nconsecutive * tune_interval
    /\ current_values = value
    /\ current_logp = 0
    /\ new_logp = 0
    /\ i = 0
    /\ chain = NoChain
    /\ \E k \in 0..tune_interval :
         pt = [ PreTuneEnter(value, tune_interval) EXCEPT
                  !.i = tune_interval,
                  !.tuning_chains = [ key \in Keys |-> Flags(k, tune_interval) ] ]
    /\ NoDecide
    /\ NoStoch
    /\ NoGraph
    /\ hist = NoHist("pre_tune", value, step_sizes)

\* pre_tune(), lines 155-189: the end of the interval
IntervalEnd ==
    /\ pc = "interval_end"
    /\ LET n == tune_interval
           key_j == keys[pt.j]
           naccepted == SumSeq(pt.tuning_chains[key_j])
       IN  /\ step_sizes' = IntervalEndA(step_sizes, key_j, naccepted, n)
           /\ pt' = [ pt EXCEPT
                 !.accfrac_j = naccepted,
                 !.nsuccess = IF PhaseASuccess(naccepted, n) THEN @ + 1 ELSE 0 ]
    /\ pc' = "done"
    /\ UNCHANGED << err, step_method, nsteps, ntune_iterlim, tune_interval, keys, value,
                    current_values, current_logp, new_logp, i, chain, hist,
                    decideVars, ancVars, stochVars >>

NextTable == IntervalEnd

SpecTable == InitTable /\ [][NextTable]_vars

-----------------------------------------------------------------------------
(* trace_ancestries() *)

\* the names of the stochastics of a model graph, parents before children
StochSeq == << "a", "b", "c", "d", "e" >>

Stochs == { StochSeq[x] : x \in 1..NStochs }

\* try: parent.is_stochastic, except: False
IsStoch(obj) == obj \in Stochs

\* the parents dictionaries over the objects objs
Dicts(objs) == UNION { [ S -> objs ] : S \in SUBSET KW }

\* the acyclic graphs: a stochastic's parents are constants and earlier stochastics
Graphs ==
    { g \in [ Stochs -> Dicts({ Const } \cup Stochs) ] :
        \A x \in 1..NStochs : \A kw \in DOMAIN g[StochSeq[x]] :
            g[StochSeq[x]][kw] \in { Const } \cup { StochSeq[y] : y \in 1..(x - 1) } }

\* the place of keyword kw in the order dictionaries list their keywords in
Pos(kw) == CHOOSE x \in DOMAIN kw_order : kw_order[x] = kw

\* lines 213-229: the grandparents collected from the parents current_parents,
\* a later parent's entry replacing an earlier one's of the same keyword
Grandparents(current_parents) ==
    LET stoch_keys == { pk \in DOMAIN current_parents : IsStoch(current_parents[pk]) }
        holders(gk) == { pk \in stoch_keys : gk \in DOMAIN parents[current_parents[pk]] }
        last(gk) == CHOOSE pk \in holders(gk) : \A o \in holders(gk) : Pos(o) <= Pos(pk)
    IN  [ gk \in { kw \in KW : holders(kw) # {} } |-> parents[current_parents[last(gk)]][gk] ]

RECURSIVE Climb(_, _)
\* lines 211-235: the counter when the loop ends, entered with current_parents
\* and counter; 0 when max( stoch_checks ) raises ValueError on an empty list
Climb(current_parents, counter) ==
    IF DOMAIN current_parents = {} THEN 0
    ELSE IF \A pk \in DOMAIN current_parents : ~IsStoch(current_parents[pk])
    THEN counter + 1
    ELSE Climb(Grandparents(current_parents), counter + 1)

\* trace_ancestries( model ) is called
InitAnc ==
    /\ pc = "trace"
    /\ err = "none"
    /\ keys = [ x \in 1..NStochs |-> StochSeq[x] ]
    /\ value = [ key \in Keys |-> 0 ]
    /\ step_method = "None"
    /\ step_sizes = NoStepSizes
    /\ NoArgs
    /\ NoSample
    /\ NoDecide
    /\ NoStoch
    /\ parents \in Graphs
    /\ kw_order \in Perms(KW)
    /\ ancestries = << >>
    /\ model_ancestries = << >>
    /\ hist = NoHist("trace_ancestries", value, step_sizes)

\* what no step of trace_ancestries() changes
AncFrame ==
    UNCHANGED << step_method, nsteps, ntune_iterlim, tune_interval, keys, value,
                 step_sizes, current_values, current_logp, new_logp, i, chain, pt,
                 decideVars, stochVars, parents, kw_order, hist >>

\* the free variables trace_ancestries() has still to go through
Untraced == { x \in DOMAIN keys : keys[x] \notin DOMAIN ancestries }

\* lines 203-236: the depth of the next free variable
TraceOne ==
    /\ pc = "trace"
    /\ Untraced # {}
    /\ LET stoch_key == keys[CHOOSE x \in Untraced : \A y \in Untraced : x <= y]
           counter == Climb(parents[stoch_key], 0)
       IN  IF counter = 0
           THEN Raise("ValueError") /\ UNCHANGED ancestries
           ELSE /\ ancestries' = [ key \in DOMAIN ancestries \cup { stoch_key } |->
                                     IF key = stoch_key THEN counter ELSE ancestries[key] ]
                /\ UNCHANGED << pc, err >>
    /\ UNCHANGED model_ancestries
    /\ AncFrame

\* line 237: model._ancestries = ancestries
TraceInstall ==
    /\ pc = "trace"
    /\ Untraced = {}
    /\ model_ancestries' = ancestries
    /\ pc' = "done"
    /\ UNCHANGED << err, ancestries >>
    /\ AncFrame

NextAnc == TraceOne \/ TraceInstall

SpecAnc == InitAnc /\ [][NextAnc]_vars

-----------------------------------------------------------------------------
(* The stochastic decorator *)

\* the names of the arguments of a decorated function
ArgNames == { "value" } \cup KW

\* the argument lists of a decorated function
ArgLists == UNION { Perms(S) : S \in SUBSET ArgNames }

\* the decorated functions tried: whether the body defines logp, whether it
\* defines random, the decorator's observed, the arguments, and how many of
\* them have a default
Funcs ==
    { f \in [ logp : BOOLEAN, random : BOOLEAN, observed : BOOLEAN, args : ArgLists,
              ndefaults : 0..Cardinality(ArgNames) ] : f.ndefaults <= Len(f.args) }

\* line 75: func() is called without arguments, which fails when an argument
\* has no default
CallFails(f) == f.ndefaults < Len(f.args)

LogpMissingNever(f) == FALSE

\* line 77: dictionary['logp']==None
LogpMissing(f) == ~f.logp

\* line 81: ( dictionary['random']!=None )*( dictionary['observed']==True )
RandomOnObserved(f) == f.random /\ f.observed

\* lines 103-105: arg_deficit>0
ArgDeficit(f) == Len(f.args) - f.ndefaults > 0

\* lines 58-65 and 110-115: the node made of the dictionary
NodeOf(f) ==
    LET names == { f.args[x] : x \in DOMAIN f.args }
    IN  [ made |-> TRUE, logp |-> f.logp, random |-> f.random, observed |-> f.observed,
          value_given |-> ("value" \in names),
          parents |-> [ kw \in names \ { "value" } |-> Const ] ]

\* stochastic( observed=... )( func ) is called
InitStoch ==
    /\ pc = "instantiate"
    /\ err = "none"
    /\ keys = << "a" >>
    /\ value = [ key \in Keys |-> 0 ]
    /\ step_method = "None"
    /\ step_sizes = NoStepSizes
    /\ NoArgs
    /\ NoSample
    /\ NoDecide
    /\ NoGraph
    /\ func \in Funcs
    /\ node = NoNode
    /\ hist = NoHist("stochastic", value, step_sizes)

\* instantiate_stochastic(), lines 55-115
Instantiate ==
    /\ pc = "instantiate"
    /\ IF CallFails(func) THEN Raise("TypeError") /\ UNCHANGED node
       ELSE IF LogpMissing(func) THEN Raise("LogpUndefined") /\ UNCHANGED node
       ELSE IF RandomOnObserved(func) THEN Raise("RandomOnObserved") /\ UNCHANGED node
       ELSE IF ArgDeficit(func) THEN Raise("ArgsUndefined") /\ UNCHANGED node
       ELSE /\ node' = NodeOf(func)
            /\ pc' = "done"
            /\ UNCHANGED err
    /\ UNCHANGED << step_method, nsteps, ntune_iterlim, tune_interval, keys, value,
                    step_sizes, current_values, current_logp, new_logp, i, chain, pt,
                    decideVars, ancVars, func, hist >>

NextStoch == Instantiate

SpecStoch == InitStoch /\ [][NextStoch]_vars

-----------------------------------------------------------------------------
(* random_draw_from_Model() *)

\* keys[ np.argsort( ancestries ) ]: the names seq in non-decreasing order of
\* depth, names of equal depth in the order seq lists them
ArgSorted(seq, depth) ==
    CHOOSE s \in Perms({ seq[x] : x \in DOMAIN seq }) :
        \A x, y \in DOMAIN s :
            x < y => \/ depth[s[x]] < depth[s[y]]
                     \/ /\ depth[s[x]] = depth[s[y]]
                        /\ \E u, v \in DOMAIN seq : u < v /\ seq[u] = s[x] /\ seq[v] = s[y]

\* the values stoch.random() may set the value of a stochastic to
RandomValues == 0..MaxVal

\* random_draw_from_Model( model ) is called on a model whose ancestries
\* trace_ancestries() has installed
InitDraw ==
    /\ pc = "random_draw"
    /\ err = "none"
    /\ keys \in Perms(Stochs)
    /\ value = [ key \in Keys |-> 0 ]
    /\ step_method = "None"
    /\ step_sizes = NoStepSizes
    /\ NoArgs
    /\ NoSample
    /\ NoDecide
    /\ NoStoch
    /\ parents \in Graphs
    /\ kw_order \in Perms(KW)
    /\ \A key \in Keys : Climb(parents[key], 0) # 0
    /\ ancestries = [ key \in Keys |-> Climb(parents[key], 0) ]
    /\ model_ancestries = ancestries
    /\ hist = NoHist("random_draw", value, step_sizes)

\* what no step of random_draw_from_Model() changes
DrawFrame ==
    UNCHANGED << err, step_method, nsteps, ntune_iterlim, tune_interval, step_sizes,
                 current_values, current_logp, new_logp, chain, pt, decideVars, ancVars, stochVars >>

\* lines 99-108: the local keys, sorted by ancestry
DrawSort ==
    /\ pc = "random_draw"
    /\ keys' = ArgSorted(keys, model_ancestries)
    /\ pc' = "draw"
    /\ UNCHANGED << value, i, hist >>
    /\ DrawFrame

\* lines 109-110: random() is called on the next of the sorted keys
DrawOne ==
    /\ pc = "draw"
    /\ \E v \in RandomValues : value' = [ value EXCEPT ![keys[i + 1]] = v ]
    /\ hist' = [ hist EXCEPT !.events = Append(@, << "random", keys[i + 1] >>) ]
    /\ i' = i + 1
    /\ pc' = IF i + 1 = Len(keys) THEN "done" ELSE "draw"
    /\ UNCHANGED keys
    /\ DrawFrame

NextDraw == DrawSort \/ DrawOne

SpecDraw == InitDraw /\ [][NextDraw]_vars

-----------------------------------------------------------------------------
(* pre_tune() called directly, on a model with a parent graph *)

\* the parent graph of the model: a has a constant parent, b has the parent a
PairGraph == [ key \in Keys |-> [ kw \in { "p" } |-> IF key = "b" THEN "a" ELSE Const ] ]

\* mcmc.pre_tune( ntune_iterlim, tune_interval ) is called on a model whose
\* ancestries have been traced and whose free variables are at 0: on the one
\* variable a, with room for six intervals of TuneN steps, or on the two
\* variables b and a, the dictionary listing b first, with room for five
\* intervals of 3 steps (the shortest interval that can have an acceptance
\* fraction in [0.2, 0.4])
InitTune ==
    /\ pc = "pre_tune"
    /\ err = "none"
    /\ keys \in { << "a" >>, << "b", "a" >> }
    /\ value = [ key \in Keys |-> 0 ]
    /\ step_method = "MetropolisHastings"
    /\ step_sizes \in StepSizeConfigs
    /\ NoSample
    /\ nsteps = 0
    /\ tune_interval = IF Len(keys) = 1 THEN TuneN ELSE 3
    /\ ntune_iterlim = IF Len(keys) = 1 THEN (nconsecutive + 1) * tune_interval
                                        ELSE nconsecutive * tune_interval
    /\ NoDecide
    /\ NoStoch
    /\ parents = PairGraph
    /\ kw_order = KwSeq
    /\ ancestries = [ key \in Keys |-> Climb(parents[key], 0) ]
    /\ model_ancestries = ancestries
    /\ hist = NoHist("pre_tune", value, step_sizes)

\* pre_tune(), lines 60-102: the records of the starting values and the arrays
PreTuneBegin ==
    /\ pc = "pre_tune"
    /\ pt' = PreTuneEnter(value, tune_interval)
    /\ pc' = "tuneA"
    /\ UNCHANGED << err, value, step_sizes, hist >>
    /\ TuneFrame

NextTune ==
    \/ PreTuneBegin
    \/ PhaseAKeyError
    \/ PhaseABreak
    \/ PhaseARaise
    \/ PhaseAIter
    \/ PhaseBBreak
    \/ PhaseBRaise
    \/ PhaseBIter

SpecTune == InitTune /\ [][NextTune]_vars

-----------------------------------------------------------------------------
(* The sampling loop: claims *)

\* the free variables' values the chain holds at index idx (1-based)
ChainVals(idx) == [ key \in Keys |-> chain.vals[key][idx] ]

\* the indices of the chain written so far
Written == 1..i

\* C1: a step of sample() whose accepted flag is 0 records, for every free
\* variable, the value recorded at the step before (at the first step: the value
\* the variable held when sample() took its snapshot).
C1_RejectionKeepsValues ==
    \A idx \in Written :
        chain.accepted[idx] = 0 =>
            ChainVals(idx) = IF idx = 1 THEN hist.value0 ELSE ChainVals(idx - 1)

\* a proposal that moved away from an accepted step has been rejected and recorded
C1_Witness ==
    /\ 2 \in Written
    /\ chain.accepted[1] = 1
    /\ chain.accepted[2] = 0
    /\ hist.proposed[2] # chain.logp[1]
    /\ ChainVals(1) # hist.value0

\* C2: the logp recorded at a step is the current joint log-probability: the
\* proposed one when the step was accepted, the one recorded at the step before
\* (at the first step: the initial one) when it was rejected; it is the
\* log-probability of the values recorded at that step.
C2_LogpIsCurrent ==
    \A idx \in Written :
        /\ chain.logp[idx] =
              IF chain.accepted[idx] = 1 THEN hist.proposed[idx]
              ELSE IF idx = 1 THEN Logp(hist.value0) ELSE chain.logp[idx - 1]
        /\ chain.logp[idx] = Logp(ChainVals(idx))

\* a rejected proposal with a log-probability other than the recorded one
C2_Witness ==
    \E idx \in Written :
        /\ chain.accepted[idx] = 0
        /\ hist.proposed[idx] < chain.logp[idx]

\* C3: whenever the main loop is about to call propose, every free variable is
\* at its value in the current-value snapshot and current_logp is the joint
\* log-probability of those values.
C3_ProposalFromCurrent ==
    pc = "propose" => (value = current_values /\ current_logp = Logp(value))

\* the calls of a completed main loop of n iterations, in order
Cycle(n) ==
    [ p \in 1..(3 * n) |->
        << << "propose", "decide", "write" >>[((p - 1) % 3) + 1], (p - 1) \div 3 >> ]

\* C4: the calls made so far are the first calls of the cycle propose, decide,
\* write at indices 0, 1, 2, ... and a call that has completed has made exactly
\* the nsteps cycles.
C4_OneCyclePerStep ==
    /\ Len(hist.events) <= 3 * nsteps
    /\ hist.events = SubSeq(Cycle(nsteps), 1, Len(hist.events))
    /\ pc = "done" => (hist.events = Cycle(nsteps) /\ i = nsteps)

\* a completed call of more than one step
C4_Witness == pc = "done" /\ nsteps = MaxSteps /\ Len(hist.events) = 3 * MaxSteps

\* C5: sample() called with ntune_iterlim given and tune_interval unset ends in
\* a configuration error and never reaches the main loop.
C5_UnsetIntervalIsError ==
    (ntune_iterlim # NoneV /\ tune_interval = NoneV /\ pc # "sample") =>
        (pc = "error" /\ err \in { "NoStepMethod", "NoPreTune", "TuneIntervalUnset" })

\* nothing has been proposed or decided and no value or step size has changed
Untouched ==
    /\ hist.npropose = 0
    /\ hist.ndecide = 0
    /\ value = hist.value0
    /\ step_sizes = hist.step0

\* C6: without a step method, and with tuning requested of a step method that
\* has no pre_tune, sample() raises before any propose or decide call, with
\* every value and step size as it was.
C6_ConfigErrorsBeforeAnyStep ==
    /\ (step_method = "None" /\ pc # "sample") =>
            (pc = "error" /\ err = "NoStepMethod" /\ Untouched)
    /\ (step_method = "NoPreTune" /\ WillTune(ntune_iterlim, tune_interval) /\ pc # "sample") =>
            (pc = "error" /\ err = "NoPreTune" /\ Untouched)

\* tuning was requested of a step method without pre_tune, and sample() has raised
C6_Witness ==
    /\ step_method = "NoPreTune"
    /\ ntune_iterlim = nconsecutive * TuneN
    /\ tune_interval = TuneN
    /\ DOMAIN step_sizes = Keys
    /\ err = "NoPreTune"

-----------------------------------------------------------------------------
(* pre_tune(): claims *)

\* pre_tune() is at the head of one of its two loops, past the step-size lookup
AtLoopHead ==
    \/ pc = "tuneA" /\ keys[pt.j] \in DOMAIN step_sizes
    \/ pc = "tuneB"

\* the parameters Phase A has not reached
Later == { keys[x] : x \in (pt.j + 1)..Len(keys) }

-----------------------------------------------------------------------------
(* decide(): claims *)

-----------------------------------------------------------------------------
(* The step-size table: claims *)

\* the table of section 4.2 for the acceptance fraction k/n: for each row,
\* whether the fraction is in its range, and its multiplier
DocTable(k, n) ==
    << << FracLe(k, n, 1), Rat(1, 5) >>,
       << FracGt(k, n, 1) /\ FracLe(k, n, 5), Rat(1, 2) >>,
       << FracGt(k, n, 5) /\ FracLe(k, n, 10), Rat(2, 3) >>,
       << FracGt(k, n, 10) /\ FracLe(k, n, 15), Rat(5, 6) >>,
       << FracGt(k, n, 15) /\ FracLt(k, n, 20), Rat(10, 11) >>,
       << FracGt(k, n, 20) /\ FracLt(k, n, 25), Rat(100, 101) >>,
       << FracGe(k, n, 25) /\ FracLe(k, n, 35), One >>,
       << FracGt(k, n, 35) /\ FracLe(k, n, 40), Rat(101, 100) >>,
       << FracGt(k, n, 40) /\ FracLe(k, n, 45), Rat(11, 10) >>,
       << FracGt(k, n, 45) /\ FracLe(k, n, 50), Rat(6, 5) >>,
       << FracGt(k, n, 50) /\ FracLe(k, n, 55), Rat(3, 2) >>,
       << FracGt(k, n, 55) /\ FracLe(k, n, 60), Rat(2, 1) >>,
       << FracGt(k, n, 60), Rat(5, 1) >> >>

\* the rows of the table the fraction k/n is in
RowsOf(k, n) == { r \in DOMAIN DocTable(k, n) : DocTable(k, n)[r][1] }

\* C9: at the end of a Phase A interval the acceptance fraction is in exactly
\* one row of the documented table and the tuned parameter's step size has been
\* multiplied by that row's multiplier.
C9_DocumentedMultiplier ==
    pc = "done" =>
        LET k == pt.accfrac_j
            n == tune_interval
            key_j == keys[pt.j]
        IN  /\ Cardinality(RowsOf(k, n)) = 1
            /\ \A r \in RowsOf(k, n) :
                   step_sizes[key_j] = Mul(hist.step0[key_j], DocTable(k, n)[r][2])

-----------------------------------------------------------------------------
(* trace_ancestries(): claims *)

\* the free variable has no stochastic parent
NoStochParents(key) == \A kw \in DOMAIN parents[key] : ~IsStoch(parents[key][kw])

\* C10: when trace_ancestries() has ended, every free variable with no
\* stochastic parent (no parents at all, or constants only) has depth 1.
C10_RootsHaveDepthOne ==
    pc \in { "done", "error" } =>
        \A key \in Keys :
            NoStochParents(key) =>
                (key \in DOMAIN model_ancestries /\ model_ancestries[key] = 1)

\* the stochastic parents of the stochastic key
StochParents(key) == { parents[key][kw] : kw \in { k \in DOMAIN parents[key] : IsStoch(parents[key][k]) } }

\* the largest number of a non-empty set of numbers
MaxOf(S) == CHOOSE x \in S : \A y \in S : y <= x

RECURSIVE Depth(_)
\* 1 plus the length of the longest chain of stochastic ancestors of key
Depth(key) ==
    IF StochParents(key) = {} THEN 1
    ELSE 1 + MaxOf({ Depth(parent) : parent \in StochParents(key) })

\* C11: when trace_ancestries() has returned, the depth installed for every free
\* variable is 1 if it has no stochastic parent and otherwise 1 plus the largest
\* depth of its stochastic parents, whatever keywords the parents are named by.
C11_DepthIsLongestChain ==
    pc = "done" =>
        \A key \in Keys :
            key \in DOMAIN model_ancestries /\ model_ancestries[key] = Depth(key)

\* C12: trace_ancestries() raises no error on an acyclic graph, and when it has
\* returned the installed mapping has exactly the free variables as keys, each
\* with a depth of at least 1.
C12_AlwaysInstallsDepths ==
    /\ pc # "error"
    /\ pc = "done" =>
          /\ DOMAIN model_ancestries = Keys
          /\ \A key \in Keys : model_ancestries[key] >= 1

-----------------------------------------------------------------------------
(* random_draw_from_Model(): claims *)

RECURSIVE Ancestors(_)
\* the stochastic ancestors of key
Ancestors(key) ==
    StochParents(key) \cup UNION { Ancestors(parent) : parent \in StochParents(key) }

\* the variables random() has been called on, in the order of the calls
Drawn == [ x \in DOMAIN hist.events |-> hist.events[x][2] ]

\* C13: when random_draw_from_Model() has returned, random() has been called
\* exactly once on every free variable, the calls were in non-decreasing order
\* of installed depth, and every variable was drawn after all its stochastic
\* ancestors.
C13_DrawnAfterAncestors ==
    pc = "done" =>
        /\ Len(Drawn) = Cardinality(Keys)
        /\ \A key \in Keys : \E x \in DOMAIN Drawn : Drawn[x] = key
        /\ \A x, y \in DOMAIN Drawn :
               x < y => /\ model_ancestries[Drawn[x]] <= model_ancestries[Drawn[y]]
                        /\ Drawn[y] \notin Ancestors(Drawn[x])

-----------------------------------------------------------------------------
(* pre_tune(): the order and the course of Phase A, claims *)

\* the installed depth of the x-th free variable of the dictionary
DepthAt(x) == model_ancestries[keys[x]]

\* C14: whenever Phase A has made an iteration on a parameter, the parameters
\* it tuned before are no deeper than that one and the parameters it has not
\* tuned yet are no shallower.
C14_ShallowestTunedFirst ==
    (pc = "tuneA" /\ pt.i > 0) =>
        \A x \in DOMAIN keys :
            /\ x < pt.j => DepthAt(x) <= DepthAt(pt.j)
            /\ x > pt.j => DepthAt(pt.j) <= DepthAt(x)

\* the parameter Phase A is tuning
TunedKey == keys[pt.j]

\* Phase A is at the head of its loop, past the step-size lookup
TuningA == pc = "tuneA" /\ TunedKey \in DOMAIN step_sizes

\* C18: Phase A leaves a parameter exactly when its five most recent completed
\* intervals all had an acceptance fraction in [0.2, 0.4]: at the loop head that
\* follows the fifth such interval in a row it multiplies the parameter's step
\* size by 0.3 and goes on to the next parameter or to Phase B; at any other
\* loop head it stays with the parameter (or raises) and does not multiply the
\* step size by 0.3.
C18_EndsAtFifthSuccess ==
    /\ [][ TuningA =>
             IF hist.inband >= 5
             THEN /\ step_sizes'[TunedKey] = Mul(step_sizes[TunedKey], Rat(3, 10))
                  /\ \/ pc' = "tuneB"
                     \/ pc' = "tuneA" /\ pt'.j = pt.j + 1 /\ pt'.i = 0
             ELSE /\ pc' \in { "tuneA", "error" }
                  /\ pt'.j = pt.j
                  /\ step_sizes'[TunedKey] # Mul(step_sizes[TunedKey], Rat(3, 10)) ]_vars
    /\ [](hist.inband <= 5)

\* the one parameter's first interval was outside the band, the five after it
\* were inside, and Phase A has ended at the end of the sixth
C18_Witness ==
    /\ pc = "tuneB"
    /\ Len(keys) = 1
    /\ pt.i = 0
    /\ hist.ndecide = (nconsecutive + 1) * tune_interval

\* C19: while Phase A tunes a parameter, every other free parameter is at its
\* baseline value after each iteration (it was there when the new
\* log-probability was evaluated), no step of Phase A changes the step size of
\* another parameter, and an accepted first iteration of an interval leaves the
\* tuned parameter one perturbation away from its baseline.
C19_OthersHeldAtBaseline ==
    /\ []((pc = "tuneA" /\ pt.i > 0) =>
             \A key \in Keys \ { TunedKey } : value[key] = hist.value0[key])
    /\ [][ TuningA =>
             \A key \in Keys \ { TunedKey } : step_sizes'[key] = step_sizes[key] ]_vars
    /\ [][ (TuningA /\ pt'.i = pt.i + 1 /\ pt.i % tune_interval = 0
               /\ pt'.tuning_chains[TunedKey][1] = 1) =>
             (value'[TunedKey] - hist.value0[TunedKey]) \in Deltas ]_vars

\* the first parameter was left away from its baseline and the second is being
\* tuned
C19_Witness ==
    /\ pc = "tuneA"
    /\ pt.j = 2
    /\ pt.i > 0
    /\ pt.current_values[keys[1]] # hist.value0[keys[1]]
    /\ value[keys[1]] = hist.value0[keys[1]]

\* C20: a rejected iteration of Phase A or Phase B leaves every free variable
\* at the value it had immediately before that iteration's perturbation: its
\* baseline value when the iteration opens an interval, otherwise its value
\* before the iteration.
C20_RejectionRestores ==
    [][ (pc \in { "tuneA", "tuneB" } /\ pt'.i = pt.i + 1) =>
          LET k == pt.i % tune_interval
              before == IF k = 0 THEN hist.value0 ELSE value
              flag == IF pc = "tuneA" THEN pt'.tuning_chains[TunedKey][k + 1]
                                      ELSE pt'.tuning_chain[k + 1]
          IN  flag = 0 => value' = before ]_vars

-----------------------------------------------------------------------------
(* Step sizes: claims *)

\* C15: sample() on a MetropolisHastings step method that was constructed
\* without a step_sizes mapping never fails for lack of a step-size entry,
\* neither in propose nor in pre_tune.
C15_DefaultStepSizes ==
    (step_method = "MetropolisHastings" /\ hist.step0 = NoStepSizes) => err # "KeyError"

\* C16: no step of sample() outside pre_tune() (the checks before the main
\* loop, propose, decide, the bookkeeping of a step) changes a step size, and in
\* a call without tuning the step sizes are always those the call began with.
C16_OnlyPreTuneChangesStepSizes ==
    /\ [][ (pc \in { "sample", "propose", "decide", "record" }) =>
               (step_sizes' = step_sizes) ]_vars
    /\ []((ntune_iterlim = NoneV \/ tune_interval = NoneV) => step_sizes = hist.step0)

\* a call without tuning on two free variables with step sizes has completed
\* more than one step
C16_Witness ==
    /\ pc = "done"
    /\ ntune_iterlim = NoneV
    /\ Len(keys) = 2
    /\ DOMAIN step_sizes = Keys
    /\ hist.npropose = MaxSteps
    /\ hist.ndecide = MaxSteps

-----------------------------------------------------------------------------
(* The stochastic decorator: claims *)

\* C17: the decorator ends with an error and no node when the function defines
\* no logp, and when it defines random while observed is True; a node that has
\* been constructed has a logp function, and has no random function if it is
\* observed.
C17_NodesAreValidated ==
    pc # "instantiate" =>
        /\ ~func.logp => (pc = "error" /\ ~node.made)
        /\ (func.random /\ func.observed) => (pc = "error" /\ ~node.made)
        /\ pc = "error" => ~node.made
        /\ node.made => (node.logp /\ ~(node.observed /\ node.random))

\* a function with logp and random, every argument with a default, was
\* decorated with observed=True and the decorator has raised
C17_Witness ==
    /\ pc = "error"
    /\ err = "RandomOnObserved"
    /\ func.logp
    /\ func.ndefaults = Len(func.args)
    /\ Len(func.args) = Cardinality(ArgNames)


-----------------------------------------------------------------------------
(* pre_tune(): what decide() compares against *)

\* the state the free variables are in just before the perturbation of the
\* tuning iteration about to run: the baseline when the iteration opens an
\* interval, the values they have otherwise
BeforePerturbation ==
    IF pt.i % tune_interval = 0 THEN pt.orig_stoch_values ELSE value

\* a step is a tuning iteration of Phase A or of Phase B
TuningIteration ==
    /\ pc \in { "tuneA", "tuneB" }
    /\ hist'.ndecide = hist.ndecide + 1

\* C21: in every tuning iteration of Phase A and of Phase B, the current_logp
\* decide() compares the new log-probability against is the joint
\* log-probability of the state the free variables were in just before the
\* iteration's perturbation, after the reset to baseline when the iteration
\* opens an interval
C21_ComparesAgainstStateBefore ==
    [][ TuningIteration => (hist'.compared = Logp(BeforePerturbation)) ]_vars


-----------------------------------------------------------------------------
(* pre_tune(): the joint rescaling of Phase B *)

\* x / y
Ratio(x, y) == [ t \in 1..6 |-> x[t] - y[t] ]

\* a step is the iteration of Phase B that opens an interval
OpensIntervalB ==
    /\ pc = "tuneB"
    /\ TuningIteration
    /\ pt.i % tune_interval = 0

\* C22: in Phase B every step size is multiplied by the one rescale_factor at
\* the iteration that opens an interval, before the perturbations of that
\* iteration are drawn, and is changed by no other step of Phase B; so the
\* ratio of any two parameters' step sizes is kept by every step of Phase B;
\* the factor Phase B starts with is 1/sqrt(number of free parameters)
C22_JointRescaleOncePerInterval ==
    [][ (pc = "tuneB") =>
          /\ IF OpensIntervalB
             THEN /\ \A key \in Keys :
                       step_sizes'[key] = Mul(step_sizes[key], pt.rescale_factor)
                  /\ hist'.sigma = step_sizes'
             ELSE step_sizes' = step_sizes
          /\ \A x \in Keys, y \in Keys :
               Ratio(step_sizes'[x], step_sizes'[y]) = Ratio(step_sizes[x], step_sizes[y])
          /\ (pt.i = 0) => (pt.rescale_factor = InvSqrt(Cardinality(Keys)))
      ]_vars

\* two parameters are in the second interval of Phase B: their step sizes have
\* been rescaled by 1/sqrt(2) and then by the factor of the first interval,
\* and differ from what Phase A left
C22_Witness ==
    /\ pc = "tuneB"
    /\ Len(keys) = 2
    /\ pt.i > tune_interval
    /\ pt.rescale_factor # One
    /\ \A key \in Keys : step_sizes[key] # Mul(hist.step0[key], Rat(3, 10))


-----------------------------------------------------------------------------
(* pre_tune(): the successful intervals of Phase B *)

\* pre_tune() was called directly and has returned
PreTuneReturned == pc = "done" /\ err = "none" /\ hist.call = "pre_tune"

\* C23: a Phase B interval with its acceptance fraction in [0.2, 0.35] leaves
\* rescale_factor at 1.0, so that all the perturbations of a run of
\* consecutive successful intervals are drawn with the same step sizes; when
\* pre_tune() returns, the five final intervals were successful, were all run
\* with one set of step sizes, and that set is what the step method is left with
C23_SuccessKeepsStepSizes ==
    /\ (pc = "tuneB" /\ hist.inband >= 1 /\ pt.i % tune_interval = 0)
          => (pt.rescale_factor = One)
    /\ (pc = "tuneB" /\ hist.inband >= 1) => (hist.used = { step_sizes })
    /\ PreTuneReturned => (hist.inband = nconsecutive /\ hist.used = { step_sizes })

\* pre_tune() has returned for one variable after five intervals of Phase A
\* and six of Phase B: an interval without an accepted step, which halved
\* the step size at the next rescaling, and then five successful ones
C23_Witness ==
    /\ PreTuneReturned
    /\ Len(keys) = 1
    /\ hist.ndecide = (2 * nconsecutive + 1) * tune_interval
    /\ step_sizes["a"] = Mul(Mul(hist.step0["a"], Rat(3, 10)), Rat(1, 2))


-----------------------------------------------------------------------------
(* pre_tune(): termination *)

\* the values of ntune_iterlim pre_tune() is called with: its default, too few
\* for two intervals, too few for five intervals, exactly five intervals
TuneLims == { 0, 4, 14, 15 }

\* step_method.pre_tune( mcmc, ntune_iterlim, 3 ) is about to run on a model of
\* one free variable, or of two with any limit too low for five intervals
InitTuneFair ==
    /\ pc = "pre_tune"
    /\ err = "none"
    /\ keys \in { << "a" >>, << "b", "a" >> }
    /\ value = [ key \in Keys |-> 0 ]
    /\ step_method = "MetropolisHastings"
    /\ step_sizes \in StepSizeConfigs
    /\ NoSample
    /\ nsteps = 0
    /\ tune_interval = 3
    /\ ntune_iterlim \in TuneLims
    /\ (Len(keys) = 2) => (ntune_iterlim < nconsecutive * tune_interval)
    /\ NoDecide
    /\ NoStoch
    /\ parents = PairGraph
    /\ kw_order = KwSeq
    /\ ancestries = [ key \in Keys |-> Climb(parents[key], 0) ]
    /\ model_ancestries = ancestries
    /\ hist = NoHist("pre_tune", value, step_sizes)

\* pre_tune() called directly, every step of it being taken in the end: the
\* call runs in one thread that nothing suspends
SpecTuneFair == InitTuneFair /\ [][NextTune]_vars /\ WF_vars(NextTune)

\* pre_tune() has returned or raised
PreTuneOver == pc \in { "done", "error" }

\* the decide() calls made so far when the loop running has made iter
\* iterations and each loop before it at most ntune_iterlim
WithinLimit(loops, iter) ==
    /\ iter <= ntune_iterlim
    /\ hist.ndecide <= loops * ntune_iterlim + iter

\* C24: pre_tune() always comes to an end, by returning or by raising; it makes
\* at most ntune_iterlim perturb/decide iterations for each free parameter in
\* Phase A and at most ntune_iterlim in Phase B, so at most
\* (number of free parameters + 1) * ntune_iterlim decide() calls in all
C24_PreTuneTerminates ==
    /\ [] ( /\ (pc = "tuneA") => WithinLimit(pt.j - 1, pt.i)
            /\ (pc = "tuneB") => WithinLimit(npars, pt.i)
            /\ hist.ndecide <= (npars + 1) * ntune_iterlim )
    /\ <> PreTuneOver

\* pre_tune() has ended after using every iteration it is allowed: the full
\* limit for the one parameter in Phase A and the full limit in Phase B
C24_Witness ==
    /\ PreTuneOver
    /\ hist.call = "pre_tune"
    /\ hist.ndecide = (npars + 1) * ntune_iterlim
    /\ ntune_iterlim > 0


-----------------------------------------------------------------------------
(* pre_tune(): the least number of iterations *)

\* the limit leaves no room for five intervals
TooFewIterations == ntune_iterlim < nconsecutive * tune_interval

\* C25: with ntune_iterlim < 5 * tune_interval (0, the default, included)
\* pre_tune() raises the non-convergence error whatever decide() answers: it
\* ends, and it ends in no other way; and when pre_tune() returns, each free
\* parameter's Phase A loop and the Phase B loop have each made at least
\* 5 * tune_interval iterations, a multiple of tune_interval
C25_FiveIntervalsOrAbort ==
    /\ [] ( (TooFewIterations /\ PreTuneOver) => (err = "TuneAbort") )
    /\ TooFewIterations => <> (err = "TuneAbort")
    /\ [] ( PreTuneReturned =>
              /\ Len(hist.loops) = npars + 1
              /\ \A t \in DOMAIN hist.loops :
                   /\ hist.loops[t] >= nconsecutive * tune_interval
                   /\ hist.loops[t] % tune_interval = 0 )


-----------------------------------------------------------------------------
(* pre_tune() at the end of an interval, of Phase A or of Phase B *)

\* pre_tune() has made the last step of the first interval of Phase B for its
\* one parameter, after five Phase A intervals that left the step size alone
InitTableB ==
    /\ pc = "interval_end_b"
    /\ err = "none"
    /\ keys = << "a" >>
    /\ value = [ key \in Keys |-> 0 ]
    /\ step_method = "MetropolisHastings"
    /\ step_sizes = [ key \in Keys |-> Rat(3, 10) ]
    /\ nsteps = 0
    /\ tune_interval \in { n \in Intervals : n >= 3 }
    /\ ntune_iterlim = nconsecutive * tune_interval
    /\ current_values = value
    /\ current_logp = 0
    /\ new_logp = 0
    /\ i = 0
    /\ chain = NoChain
    /\ \E k \in 0..tune_interval :
         pt = [ PreTuneEnter(value, tune_interval) EXCEPT
                  !.phase = "B",
                  !.i = tune_interval,
                  !.rescale_factor = InvSqrt(npars),
                  !.tuning_chain = Flags(k, tune_interval) ]
    /\ NoDecide
    /\ NoStoch
    /\ NoGraph
    /\ hist = [ NoHist("pre_tune", value, [ key \in Keys |-> One ]) EXCEPT
                  !.ndecide = (nconsecutive + 1) * tune_interval,
                  !.loops = << nconsecutive * tune_interval >>,
                  !.sigma = step_sizes,
                  !.used = { step_sizes } ]

\* pre_tune(), lines 260-287: the end of the Phase B interval
IntervalEndB ==
    /\ pc = "interval_end_b"
    /\ LET n == tune_interval
           naccepted == SumSeq(pt.tuning_chain)
       IN  pt' = [ pt EXCEPT
                 !.accfrac = naccepted,
                 !.nsuccess = IF PhaseBSuccess(naccepted, n) THEN @ + 1 ELSE 0,
                 !.rescale_factor = PhaseBFactor(naccepted, n, @) ]
    /\ pc' = "done"
    /\ UNCHANGED << err, step_method, nsteps, ntune_iterlim, tune_interval, keys, value,
                    step_sizes, current_values, current_logp, new_logp, i, chain, hist,
                    decideVars, ancVars, stochVars >>

InitTables == InitTable \/ InitTableB

NextTables == IntervalEnd \/ IntervalEndB

SpecTables == InitTables /\ [][NextTables]_vars

-----------------------------------------------------------------------------
(* The multipliers in order: claims *)

RECURSIVE Pow(_, _)
\* b to the power e
Pow(b, e) == IF e = 0 THEN 1 ELSE b * Pow(b, e - 1)

RECURSIVE Part(_, _, _)
\* the product of the powers of the primes from the t-th on that x has with
\* an exponent of the given sign
Part(x, sign, t) ==
    IF t > Len(Primes) THEN 1
    ELSE (IF sign * x[t] > 0 THEN Pow(Primes[t], sign * x[t]) ELSE 1) * Part(x, sign, t + 1)

\* x <= y, for numbers without a power of sqrt(npars)
Leq(x, y) == Part(x, 1, 1) * Part(y, -1, 1) <= Part(y, 1, 1) * Part(x, -1, 1)

\* the multiplier the interval end has applied: to the step size of the tuned
\* parameter in Phase A, as the rescale_factor chosen in Phase B
Applied ==
    IF pt.phase = "A" THEN Ratio(step_sizes[keys[pt.j]], hist.step0[keys[pt.j]])
    ELSE pt.rescale_factor

\* the multiplier of the same table for k2 accepted steps out of n
TableAt(k2, n) ==
    IF pt.phase = "A" THEN PhaseAFactor(k2, n) ELSE PhaseBFactor(k2, n, InvSqrt(npars))

\* the number of accepted steps of the interval that has ended
Accepted == IF pt.phase = "A" THEN pt.accfrac_j ELSE pt.accfrac

\* C26: the multiplier applied at the end of an interval does not decrease
\* with the acceptance fraction: against every other fraction k2/n of the same
\* interval length, a larger fraction has a multiplier at least as large and
\* a smaller fraction one at most as large, in Phase A and in Phase B
C26_MultiplierNonDecreasing ==
    pc = "done" =>
        \A k2 \in 0..tune_interval :
            /\ (Accepted <= k2) => Leq(Applied, TableAt(k2, tune_interval))
            /\ (k2 <= Accepted) => Leq(TableAt(k2, tune_interval), Applied)

=============================================================================
